---- MODULE Spec2Model ----
(***************************************************************************)
(* The flat memory store and register address table of src/memory.rs:      *)
(* struct Memory { raw_memory: Vec<i8>, register_lookup_table:             *)
(* HashMap<i32, i32> } with the ManageMemory and ManageRegisters impls.    *)
(*                                                                         *)
(* A call that panics (Vec index out of range, HashMap key absent, i16     *)
(* addition overflow in a build with overflow checks) is recorded by its   *)
(* outcome; the store keeps whatever the call had already stored when it   *)
(* panicked, which is what a caller unwinding through the call observes.   *)
(***************************************************************************)
EXTENDS Integers, Sequences, FiniteSets

\* ------------------------------------------------------------------ bounds

\* Write calls made on one store after construction (reads and register
\* lookups, which store nothing, are not counted).
MaxWrites == 1

\* Positions and values the calls are made with: both ends of the store and
\* the first positions past it; values inside and outside the i8 and i16
\* ranges, of either sign, with a low byte below and above 0x80.
Positions == {0, 1, 3, 4094, 4095, 4096, 4097}
Values == {-128, -2, 127, 300, 4660, -32513, 65836}

\* The values written in the runs that interleave register lookups.
RegisterRunValues == {4660}

\* --------------------------------------------------------------- constants

\* memory.rs:105  for _index in 0..4096 { result.raw_memory.push(0); }
MEMORY_SIZE == 4096

Byte == "Byte"
Word == "Word"
MemoryOperationSize == {Byte, Word}

\* crate::types::Register, in declaration order; a register's ordinal
\* (`register as i32`) is its place in this list, counted from 0.
Register ==
    << "AL", "BL", "CL", "DL", "AH", "BH", "CH", "DH",
       "AX", "BX", "CX", "DX",
       "EAX", "EBX", "ECX", "EDX",
       "ESP", "EBP", "Unknwown" >>

Registers == { Register[i] : i \in DOMAIN Register }

RegisterOrdinal(register) ==
    (CHOOSE i \in DOMAIN Register : Register[i] = register) - 1

\* ------------------------------------------------------- integer conversions

\* Mutant: the low 8 bits read as unsigned (`x as u8`).
as_u8(x) == x % 256

\* `x as i8`: the low 8 bits, read as two's complement.
as_i8(x) ==
    LET m == x % 256
    IN  IF m >= 128 THEN m - 256 ELSE m

\* `x as i16`: the low 16 bits, read as two's complement.
wrap_i16(x) ==
    LET m == x % 65536
    IN  IF m >= 32768 THEN m - 65536 ELSE m

as_i16(x) == wrap_i16(x)

\* i16::from(i8) and `as i32` of an i8 or i16: sign-extending, value kept.
i16_from(x) == x
as_i32(x) == x

\* `x << 8` on i16: the bits shifted out are dropped, no overflow check.
shl8_i16(x) == wrap_i16(x * 256)

\* `x >> 8` on i16: arithmetic shift.
shr8_i16(x) == x \div 256

\* `x as usize` of an i32: a negative x wraps to 2^w + x, w the pointer
\* width of the target (32 or 64).  The value is wraps * 2^w + n.
as_usize(x) ==
    IF x >= 0 THEN [wraps |-> 0, n |-> x] ELSE [wraps |-> 1, n |-> x]

\* ------------------------------------------------------------------- state

VARIABLES raw_memory, register_lookup_table, last, nwrites

vars == << raw_memory, register_lookup_table, last, nwrites >>

NoAddress == [wraps |-> 0, n |-> 0]

Call(op, position, value, size, register, outcome, result, address, rsize) ==
    [ op |-> op, position |-> position, value |-> value, size |-> size,
      register |-> register, outcome |-> outcome, result |-> result,
      address |-> address, rsize |-> rsize ]

NoCall == Call("new", 0, 0, Byte, "Unknwown", "Ok", 0, NoAddress, Byte)

\* ---------------------------------------------------------- Memory::init

\* HashMap::insert: the key maps to the value, a former value is replaced.
insert(table, key, value) ==
    [ k \in (DOMAIN table) \cup {key} |-> IF k = key THEN value ELSE table[k] ]

RECURSIVE insert_all(_, _)
insert_all(table, entries) ==
    IF entries = << >> THEN table
    ELSE insert_all(insert(table, RegisterOrdinal(Head(entries)[1]), Head(entries)[2]),
                    Tail(entries))

\* The inserts of init_register_lookup_table, in order: register, offset.
register_entries ==
    << << "AL", 3 >>, << "BL", 7 >>, << "CL", 11 >>, << "DL", 15 >>,
       << "AH", 2 >>, << "BH", 6 >>, << "CH", 10 >>, << "DH", 14 >>,
       << "AX", 0 >>, << "BX", 4 >>, << "CX", 8 >>, << "DX", 12 >>,
       << "EAX", 0 >>, << "EBX", 4 >>, << "ECX", 8 >>, << "EDX", 12 >>,
       << "ESP", 16 >>, << "EBP", 20 >>,
       << "Unknwown", -1 >> >>

\* Mutant: AL placed at offset 1, inside AX's own two bytes.
init_register_lookup_table_al_in_ax ==
    insert_all(<< >>, [register_entries EXCEPT ![1] = << "AL", 1 >>])

init_register_lookup_table == insert_all(<< >>, register_entries)

init_raw_memory == [ i \in 0 .. (MEMORY_SIZE - 1) |-> 0 ]

Init ==
    /\ raw_memory = init_raw_memory
    /\ register_lookup_table = init_register_lookup_table
    /\ last = NoCall
    /\ nwrites = 0

\* ------------------------------------------------------------ ManageMemory

\* Mutant: the last cell is taken to be out of range (position < len - 1).
in_bounds_short(memory, position) ==
    position \in DOMAIN memory /\ position + 1 \in DOMAIN memory

\* Vec indexing: raw_memory[position] panics unless position < len.  The
\* panic ("index out of bounds") is the call's OutOfBounds outcome.
in_bounds(memory, position) == position \in DOMAIN memory

read8(memory, position) ==
    IF in_bounds(memory, position)
    THEN [outcome |-> "Ok", result |-> memory[position]]
    ELSE [outcome |-> "OutOfBounds", result |-> 0]

\* (i16::from(raw_memory[position]) << 8) + i16::from(raw_memory[position + 1])
\* The sum may leave the i16 range: a panic with overflow checks, else it wraps.
read16(memory, position, overflow_checks) ==
    IF ~ in_bounds(memory, position)
    THEN [outcome |-> "OutOfBounds", result |-> 0]
    ELSE IF ~ in_bounds(memory, position + 1)
    THEN [outcome |-> "OutOfBounds", result |-> 0]
    ELSE LET sum == shl8_i16(i16_from(memory[position]))
                    + i16_from(memory[position + 1])
         IN  IF sum = wrap_i16(sum)
             THEN [outcome |-> "Ok", result |-> sum]
             ELSE IF overflow_checks
             THEN [outcome |-> "AddOverflow", result |-> 0]
             ELSE [outcome |-> "Ok", result |-> wrap_i16(sum)]

read(memory, position, size, overflow_checks) ==
    IF size = Byte
    THEN LET r == read8(memory, position)
         IN  [outcome |-> r.outcome, result |-> as_i32(r.result)]
    ELSE LET r == read16(memory, position, overflow_checks)
         IN  [outcome |-> r.outcome, result |-> as_i32(r.result)]

\* raw_memory[position] = value: stores, or panics and stores nothing.
write8(memory, position, value) ==
    IF in_bounds(memory, position)
    THEN [outcome |-> "Ok", memory |-> [memory EXCEPT ![position] = value]]
    ELSE [outcome |-> "OutOfBounds", memory |-> memory]

\* Mutant: low byte first (little-endian).
write16_little_endian(memory, position, value) ==
    LET first == write8(memory, position, as_i8(value))
    IN  IF first.outcome # "Ok"
        THEN first
        ELSE write8(first.memory, position + 1, as_i8(shr8_i16(value)))

\* Mutant: the word stored in the low half of a 4-byte register slot.
write16_low_half(memory, position, value) ==
    LET first == write8(memory, position + 2, as_i8(shr8_i16(value)))
    IN  IF first.outcome # "Ok"
        THEN first
        ELSE write8(first.memory, position + 3, as_i8(value))

\* raw_memory[position] = (value >> 8) as i8; raw_memory[position+1] = value as i8;
\* The second store runs only after the first has been made.
write16(memory, position, value) ==
    LET first == write8(memory, position, as_i8(shr8_i16(value)))
    IN  IF first.outcome # "Ok"
        THEN first
        ELSE write8(first.memory, position + 1, as_i8(value))

write(memory, position, value, size) ==
    IF size = Byte
    THEN write8(memory, position, as_i8(value))
    ELSE write16(memory, position, as_i16(value))

\* --------------------------------------------------------- ManageRegisters

\* self.register_lookup_table[&(register as i32)] as usize
get_register_address(table, register) ==
    LET key == RegisterOrdinal(register)
    IN  IF key \in DOMAIN table
        THEN [outcome |-> "Ok", address |-> as_usize(table[key])]
        ELSE [outcome |-> "KeyNotFound", address |-> NoAddress]

\* Mutant: the 32-bit registers (ordinals 12..15) classified with the words.
get_register_size_wide(register) ==
    LET val == as_i8(RegisterOrdinal(register))
    IN  IF val >= 0 /\ val <= 7 THEN Byte
        ELSE IF val >= 8 /\ val <= 15 THEN Word
        ELSE Byte

get_register_size(register) ==
    LET val == as_i8(RegisterOrdinal(register))
    IN  IF val >= 0 /\ val <= 7 THEN Byte
        ELSE IF val >= 8 /\ val <= 11 THEN Word
        ELSE Byte

\* ----------------------------------------------------------------- actions

Read(position, size, overflow_checks) ==
    LET r == read(raw_memory, position, size, overflow_checks)
    IN  /\ last' = Call("read", position, 0, size, "Unknwown",
                        r.outcome, r.result, NoAddress, Byte)
        /\ UNCHANGED << raw_memory, register_lookup_table, nwrites >>

Write(position, value, size) ==
    LET w == write(raw_memory, position, value, size)
    IN  /\ nwrites < MaxWrites
        /\ nwrites' = nwrites + 1
        /\ last' = Call("write", position, value, size, "Unknwown",
                        w.outcome, 0, NoAddress, Byte)
        /\ raw_memory' = w.memory
        /\ UNCHANGED register_lookup_table

GetRegisterAddress(register) ==
    LET a == get_register_address(register_lookup_table, register)
    IN  /\ last' = Call("get_register_address", 0, 0, Byte, register,
                        a.outcome, 0, a.address, Byte)
        /\ UNCHANGED << raw_memory, register_lookup_table, nwrites >>

GetRegisterSize(register) ==
    /\ last' = Call("get_register_size", 0, 0, Byte, register,
                    "Ok", 0, NoAddress, get_register_size(register))
    /\ UNCHANGED << raw_memory, register_lookup_table, nwrites >>

\* Calls on the flat memory store.
Next ==
    \/ \E position \in Positions, size \in MemoryOperationSize,
          overflow_checks \in BOOLEAN :
          Read(position, size, overflow_checks)
    \/ \E position \in Positions, value \in Values, size \in MemoryOperationSize :
          Write(position, value, size)

Spec == Init /\ [][Next]_vars

\* Register lookups, interleaved with calls on the store.
NextRegisters ==
    \/ \E register \in Registers : GetRegisterAddress(register)
    \/ \E register \in Registers : GetRegisterSize(register)
    \/ \E position \in Positions, size \in MemoryOperationSize,
          overflow_checks \in BOOLEAN :
          Read(position, size, overflow_checks)
    \/ \E position \in Positions, value \in RegisterRunValues,
          size \in MemoryOperationSize :
          Write(position, value, size)

SpecRegisters == Init /\ [][NextRegisters]_vars

\* ------------------------------------------------------------------ claims

\* The signed reading of a bit pattern of 8 or of 16 bits.
Signed8(b) == IF b < 128 THEN b ELSE b - 256
Signed16(u) == IF u < 32768 THEN u ELSE u - 65536

WriteThenRead(size_written, size_read) ==
    /\ last.op = "write" /\ last.size = size_written
    /\ last'.op = "read" /\ last'.size = size_read

\* C1: after write(p, v, Word) with p in [0,4094) and v a 16-bit signed
\* value, the read(p, Word) that follows immediately returns v.
C1_WordRoundTrip ==
    [][ ( /\ WriteThenRead(Word, Word)
          /\ last.position \in 0 .. 4093
          /\ last.value \in -32768 .. 32767
          /\ last'.position = last.position )
        => ( last'.outcome = "Ok" /\ last'.result = last.value ) ]_vars

\* C2: read(p, Word) with p and p+1 in [0,4096) completes and returns the
\* 16-bit signed value whose high byte is the bit pattern of the cell at p
\* and whose low byte is the bit pattern of the cell at p+1.
C2_WordReadComposition ==
    ( last.op = "read" /\ last.size = Word /\ last.position \in 0 .. 4094 )
    => ( /\ last.outcome = "Ok"
         /\ last.result =
              Signed16((raw_memory[last.position] % 256) * 256
                       + (raw_memory[last.position + 1] % 256)) )

\* C3: after write(p, v, Byte) with p in [0,4095), the read(p, Byte) that
\* follows immediately returns v when v is in [-128,127], and otherwise the
\* low 8 bits of v read as a signed 8-bit value.
C3_ByteRoundTrip ==
    [][ ( /\ WriteThenRead(Byte, Byte)
          /\ last.position \in 0 .. 4094
          /\ last'.position = last.position )
        => ( /\ last.outcome = "Ok"
             /\ last'.outcome = "Ok"
             /\ last'.result = ( IF last.value \in -128 .. 127
                                 THEN last.value
                                 ELSE Signed8(last.value % 256) ) ) ]_vars

\* A byte read at 0 returns 44, the low 8 bits of 300, after the one write
\* made, which stored that byte there.
C3_Witness ==
    /\ last.op = "read" /\ last.size = Byte /\ last.position = 0
    /\ last.outcome = "Ok" /\ last.result = 44
    /\ nwrites = 1 /\ raw_memory[0] = 44 /\ raw_memory[1] = 0

\* C4: after write(p, value, Word) with p in [0,4094), for any 32-bit value,
\* read(p, Byte) returns the high byte and read(p+1, Byte) the low byte of
\* the low 16 bits of value, each as a signed 8-bit value.
C4_WordWriteDecomposition ==
    [][ ( /\ WriteThenRead(Word, Byte)
          /\ last.position \in 0 .. 4093 )
        => ( /\ last.outcome = "Ok"
             /\ ( last'.position = last.position
                  => ( /\ last'.outcome = "Ok"
                       /\ last'.result = Signed8((last.value % 65536) \div 256) ) )
             /\ ( last'.position = last.position + 1
                  => ( /\ last'.outcome = "Ok"
                       /\ last'.result = Signed8((last.value % 65536) % 256) ) ) ) ]_vars

\* A byte read at 1 returns 44 after the one write made, write(0, 300, Word)
\* or a value with the same low 16 bits, which left 1 at 0 and 44 at 1.
C4_Witness ==
    /\ last.op = "read" /\ last.size = Byte /\ last.position = 1
    /\ last.outcome = "Ok" /\ last.result = 44
    /\ nwrites = 1 /\ raw_memory[0] = 1 /\ raw_memory[1] = 44

C6_UnknownRegisterFails ==
    ( last.op = "get_register_address" /\ last.register = "Unknwown" )
    => ( last.outcome = "UnknownRegister" /\ last.address = NoAddress )

\* The offsets of the register table, as the claim lists them.
C7_Offset(register) ==
    CASE register = "AL" -> 3   [] register = "AH" -> 2
      [] register = "BL" -> 7   [] register = "BH" -> 6
      [] register = "CL" -> 11  [] register = "CH" -> 10
      [] register = "DL" -> 15  [] register = "DH" -> 14
      [] register = "AX" -> 0   [] register = "BX" -> 4
      [] register = "CX" -> 8   [] register = "DX" -> 12
      [] register = "EAX" -> 0  [] register = "EBX" -> 4
      [] register = "ECX" -> 8  [] register = "EDX" -> 12
      [] register = "ESP" -> 16 [] register = "EBP" -> 20

\* C7: in every state reached from a fresh store by reads, writes and
\* lookups, get_register_address returns the listed offset for each register
\* other than Unknown, each of which has exactly one entry in the table.
C7_RegisterTable ==
    /\ \A register \in Registers \ {"Unknwown"} :
          /\ RegisterOrdinal(register) \in DOMAIN register_lookup_table
          /\ get_register_address(register_lookup_table, register)
               = [ outcome |-> "Ok",
                   address |-> [wraps |-> 0, n |-> C7_Offset(register)] ]
    /\ ( last.op = "get_register_address" /\ last.register # "Unknwown" )
       => ( /\ last.outcome = "Ok"
            /\ last.address = [wraps |-> 0, n |-> C7_Offset(last.register)] )

\* AL has been looked up, at offset 3, after a write stored into the cells
\* at AX's offset.
C7_Witness ==
    /\ last.op = "get_register_address" /\ last.register = "AL"
    /\ last.outcome = "Ok" /\ last.address = [wraps |-> 0, n |-> 3]
    /\ nwrites >= 1 /\ raw_memory[0] # 0

\* C8: get_register_size returns Byte for ordinals 0..7, Word for 8..11 and
\* Byte for every other ordinal, so that Word is returned for exactly AX, BX,
\* CX and DX.
C8_SizeClassification ==
    ( last.op = "get_register_size" )
    => LET v == RegisterOrdinal(last.register)
       IN  /\ ( (0 <= v /\ v <= 7) => last.rsize = Byte )
           /\ ( (8 <= v /\ v <= 11) => last.rsize = Word )
           /\ ( ~ (0 <= v /\ v <= 11) => last.rsize = Byte )
           /\ ( last.rsize = Word <=> last.register \in {"AX", "BX", "CX", "DX"} )

\* EAX, a 32-bit register, has been classified, as Byte.
C8_Witness ==
    /\ last.op = "get_register_size" /\ last.register = "EAX"
    /\ last.rsize = Byte

\* `before` with cell q taken from `after`, when q is a cell of both.
C9_Except(before, after, q) ==
    IF q \in DOMAIN before /\ q \in DOMAIN after
    THEN [before EXCEPT ![q] = after[q]]
    ELSE before

\* Whether `after` is `before` in every cell but those a write of the given
\* size at the given position may change: p (Byte), p and p+1 (Word).
C9_Frame(before, after, position, size) ==
    IF size = Byte
    THEN after = C9_Except(before, after, position)
    ELSE after = C9_Except(C9_Except(before, after, position), after, position + 1)

\* C9: a write changes no cell other than p (Byte) or p and p+1 (Word) and
\* keeps the store at 4096 cells; and on a fresh store, write(address of AX,
\* 0x1234, Word) followed by read(address of AL, Byte) returns 0.
C9_WriteFrame ==
    [][ /\ ( last'.op = "write"
             => /\ DOMAIN raw_memory' = 0 .. 4095
                /\ C9_Frame(raw_memory, raw_memory', last'.position, last'.size) )
        /\ ( ( /\ WriteThenRead(Word, Byte)
               /\ nwrites = 1
               /\ last.value = 4660
               /\ last.position
                    = get_register_address(register_lookup_table, "AX").address.n
               /\ last'.position
                    = get_register_address(register_lookup_table, "AL").address.n )
             => ( last'.outcome = "Ok" /\ last'.result = 0 ) ) ]_vars

\* A byte read at 3 returns 0 after the one write made, write(0, 0x1234,
\* Word), which left 0x12 at 0 and 0x34 at 1.
C9_Witness ==
    /\ last.op = "read" /\ last.size = Byte /\ last.position = 3
    /\ last.outcome = "Ok" /\ last.result = 0
    /\ nwrites = 1 /\ raw_memory[0] = 18 /\ raw_memory[1] = 52

\* C10: a write that fails for a bounds violation leaves the store as it was.
C10_FailedWriteAtomic ==
    [][ ( last'.op = "write" /\ last'.outcome # "Ok" )
        => raw_memory' = raw_memory ]_vars

====
